---- MODULE Spec2Model ----
(***************************************************************************)
(* The install queue of the `add` command (src/commands/add.js, add()):    *)
(* the loop that drains installQueue, copies each component once, records  *)
(* it in installedComponents or failedComponents and enqueues the          *)
(* dependencies of every component it has copied.                          *)
(*                                                                         *)
(* The file system is the environment: what fs.existsSync answers for a    *)
(* component's source and destination directory, and whether fs.copy and   *)
(* the import rewrite throw, are chosen when the loop asks, and recorded   *)
(* in sourceDir, destDir and copies.  attemptOrder and required are what   *)
(* the loop reports as it goes: the spinner started for each attempt and   *)
(* the "Dependency required" line of each push.                            *)
(***************************************************************************)
EXTENDS Naturals, Sequences, FiniteSets

\* Component names on offer: the one key and the one dependency of the
\* shipped map, and a third name.
Components == {"Accordion", "Collapsible", "Ghost"}

\* Longest requested list (the `components` argument of add()).
MaxRequested == 2

\* Largest number of dependency entries, over all keys of the map.
MaxDepEdges == 2

VARIABLES
    components,              \* line 320: add()'s argument, the requested names in order
    force,                   \* lines 388, 395: options.force
    COMPONENT_DEPENDENCIES,  \* lines 15-17: the dependency map, a function on its keys
    installQueue,            \* line 357: [...components]
    installedComponents,     \* line 358: new Set()
    failedComponents,        \* line 359: new Set()
    pc,                      \* line 362: "loop" in the while loop, "done" past it
    sourceDir,               \* line 378: per component, what existsSync(componentSourceDir) answered
    destDir,                 \* line 388: per component, what existsSync(componentDestDir) answered
    attempts,                \* line 370: per component, times the loop got past the skip check
    copies,                  \* line 395: per component, calls of fs.copy
    attemptOrder,            \* lines 370-373: the names of the spinners started, in order
    required                 \* line 427: the names logged "Dependency required", in order

vars == <<components, force, COMPONENT_DEPENDENCIES, installQueue,
          installedComponents, failedComponents, pc, sourceDir, destDir,
          attempts, copies, attemptOrder, required>>

inputs == <<components, force, COMPONENT_DEPENDENCIES>>

------------------------------------------------------------------------------
\* Helpers

Range(s) == {s[i] : i \in 1..Len(s)}

SeqsUpTo(S, n) == UNION {[1..k -> S] : k \in 0..n}

Contains(s, x) == \E i \in 1..Len(s) : s[i] = x

RECURSIVE SumLens(_, _)
SumLens(m, keys) ==
    IF keys = {} THEN 0
    ELSE LET k == CHOOSE x \in keys : TRUE
         IN  Len(m[k]) + SumLens(m, keys \ {k})

\* Every map from some of the names to a non-empty list of names, with at
\* most MaxDepEdges entries in all.  The shipped map is one of them.
DependencyMaps ==
    {m \in UNION {[K -> SeqsUpTo(Components, MaxDepEdges) \ {<< >>}] : K \in SUBSET Components} :
        SumLens(m, DOMAIN m) <= MaxDepEdges}

ShippedMap == [c \in {"Accordion"} |-> <<"Collapsible">>]

------------------------------------------------------------------------------
\* The code's conditions and lookups

\* COMPONENT_DEPENDENCIES[component] || []
Dependencies(c) ==
    IF c \in DOMAIN COMPONENT_DEPENDENCIES THEN COMPONENT_DEPENDENCIES[c] ELSE << >>

\* installQueue[0] in place of installQueue.shift(): the head is read and stays.
RestPeek(q) == q

\* installQueue.shift(): what is left of the queue
Rest(q) == Tail(q)

\* No skip check.
AlreadyProcessedNever(c) == FALSE

\* Only the installed names are skipped.
AlreadyProcessedIgnoresFailed(c) == c \in installedComponents

\* installedComponents.has(component) || failedComponents.has(component)
AlreadyProcessed(c) == c \in installedComponents \/ c \in failedComponents

\* --force is not looked at.
SkipExistingIgnoresForce(destExists) == destExists

\* fs.existsSync(componentDestDir) && !options.force
SkipExisting(destExists) == destExists /\ ~force

\* The installQueue.includes(dep) half of the check left out.
ShouldEnqueueNoQueueCheck(dep, inst, q) == dep \notin inst

\* No check at all: every dependency is pushed.
ShouldEnqueueAlways(dep, inst, q) == TRUE

\* The first `!` dropped.
ShouldEnqueueInverted(dep, inst, q) == dep \in inst /\ ~Contains(q, dep)

\* !installedComponents.has(dep) && !installQueue.includes(dep)
ShouldEnqueue(dep, inst, q) == dep \notin inst /\ ~Contains(q, dep)

\* installQueue.unshift(dep) in place of push: the dependency goes to the front.
RECURSIVE EnqueueDepsAtFront(_, _, _)
EnqueueDepsAtFront(ds, inst, q) ==
    IF ds = << >> THEN q
    ELSE EnqueueDepsAtFront(Tail(ds), inst,
                            IF ShouldEnqueue(Head(ds), inst, q) THEN <<Head(ds)>> \o q ELSE q)

\* A `break` after the first dependency.
EnqueueDepsFirstOnly(ds, inst, q) ==
    IF ds = << >> THEN q
    ELSE IF ShouldEnqueue(Head(ds), inst, q) THEN Append(q, Head(ds)) ELSE q

\* for (const dep of dependencies) { if (...) installQueue.push(dep) }
RECURSIVE EnqueueDeps(_, _, _)
EnqueueDeps(ds, inst, q) ==
    IF ds = << >> THEN q
    ELSE EnqueueDeps(Tail(ds), inst,
                     IF ShouldEnqueue(Head(ds), inst, q) THEN Append(q, Head(ds)) ELSE q)

\* The dependencies the loop of lines 425-430 logs and pushes, in order.
RECURSIVE RequiredDeps(_, _, _)
RequiredDeps(ds, inst, q) ==
    IF ds = << >> THEN << >>
    ELSE IF ShouldEnqueue(Head(ds), inst, q)
         THEN <<Head(ds)>> \o RequiredDeps(Tail(ds), inst, Append(q, Head(ds)))
         ELSE RequiredDeps(Tail(ds), inst, q)

------------------------------------------------------------------------------
\* Initial state: the sets are empty, the queue is a copy of the request

Init ==
    /\ components \in SeqsUpTo(Components, MaxRequested)
    /\ force \in BOOLEAN
    /\ COMPONENT_DEPENDENCIES \in DependencyMaps
    /\ installQueue = components
    /\ installedComponents = {}
    /\ failedComponents = {}
    /\ pc = "loop"
    /\ sourceDir = [c \in Components |-> "unknown"]
    /\ destDir = [c \in Components |-> "unknown"]
    /\ attempts = [c \in Components |-> 0]
    /\ copies = [c \in Components |-> 0]
    /\ attemptOrder = << >>
    /\ required = << >>

------------------------------------------------------------------------------
\* One action per way through one iteration of the while loop

Dequeuing == pc = "loop" /\ installQueue # << >>

\* The source directory is not written by add(): a second look agrees with the first.
SourceAnswers(c) ==
    IF sourceDir[c] = "unknown" THEN {"present", "missing"} ELSE {sourceDir[c]}

\* Lines 363-368: the dequeued name is in one of the sets already.
SkipProcessed ==
    /\ Dequeuing
    /\ AlreadyProcessed(Head(installQueue))
    /\ installQueue' = Rest(installQueue)
    /\ UNCHANGED <<inputs, installedComponents, failedComponents, pc,
                   sourceDir, destDir, attempts, copies, attemptOrder, required>>

\* Lines 376-382: no source directory of that name.
SourceNotFound ==
    /\ Dequeuing
    /\ LET c == Head(installQueue) IN
        /\ ~AlreadyProcessed(c)
        /\ "missing" \in SourceAnswers(c)
        /\ sourceDir' = [sourceDir EXCEPT ![c] = "missing"]
        /\ attempts' = [attempts EXCEPT ![c] = @ + 1]
        /\ attemptOrder' = Append(attemptOrder, c)
        /\ failedComponents' = failedComponents \cup {c}
        /\ installQueue' = Rest(installQueue)
    /\ UNCHANGED <<inputs, installedComponents, pc, destDir, copies, required>>

\* The skip without its `continue` before the dependency loop: the
\* dependencies of the existing component are enqueued too.
AlreadyExistsEnqueuesDeps ==
    /\ Dequeuing
    /\ LET c == Head(installQueue) IN
        /\ ~AlreadyProcessed(c)
        /\ "present" \in SourceAnswers(c)
        /\ SkipExisting(TRUE)
        /\ sourceDir' = [sourceDir EXCEPT ![c] = "present"]
        /\ destDir' = [destDir EXCEPT ![c] = "present"]
        /\ attempts' = [attempts EXCEPT ![c] = @ + 1]
        /\ attemptOrder' = Append(attemptOrder, c)
        /\ installedComponents' = installedComponents \cup {c}
        /\ installQueue' = EnqueueDeps(Dependencies(c), installedComponents \cup {c},
                                       Rest(installQueue))
        /\ required' = required \o RequiredDeps(Dependencies(c), installedComponents \cup {c},
                                                 Rest(installQueue))
    /\ UNCHANGED <<inputs, failedComponents, pc, copies>>

\* Lines 384-392: the destination exists and --force is not given.
AlreadyExists ==
    /\ Dequeuing
    /\ LET c == Head(installQueue) IN
        /\ ~AlreadyProcessed(c)
        /\ "present" \in SourceAnswers(c)
        /\ SkipExisting(TRUE)
        /\ sourceDir' = [sourceDir EXCEPT ![c] = "present"]
        /\ destDir' = [destDir EXCEPT ![c] = "present"]
        /\ attempts' = [attempts EXCEPT ![c] = @ + 1]
        /\ attemptOrder' = Append(attemptOrder, c)
        /\ installedComponents' = installedComponents \cup {c}
        /\ installQueue' = Rest(installQueue)
    /\ UNCHANGED <<inputs, failedComponents, pc, copies, required>>

\* Lines 376-395: the source is there, the destination is not skipped,
\* fs.copy is called.
Copying(c) ==
    /\ ~AlreadyProcessed(c)
    /\ "present" \in SourceAnswers(c)
    /\ \E destExists \in BOOLEAN :
        /\ ~SkipExisting(destExists)
        /\ destDir' = [destDir EXCEPT ![c] = IF destExists THEN "present" ELSE "absent"]
    /\ sourceDir' = [sourceDir EXCEPT ![c] = "present"]
    /\ attempts' = [attempts EXCEPT ![c] = @ + 1]
    /\ attemptOrder' = Append(attemptOrder, c)
    /\ copies' = [copies EXCEPT ![c] = @ + 1]

\* The lookup without its `|| []`: for-of over undefined throws after the
\* name was added to installedComponents, and the catch adds it to
\* failedComponents.
InstallSucceedsNoDefault ==
    /\ Dequeuing
    /\ LET c == Head(installQueue) IN
        /\ Copying(c)
        /\ installedComponents' = installedComponents \cup {c}
        /\ IF c \in DOMAIN COMPONENT_DEPENDENCIES
           THEN /\ installQueue' = EnqueueDeps(COMPONENT_DEPENDENCIES[c],
                                               installedComponents \cup {c},
                                               Rest(installQueue))
                /\ required' = required \o RequiredDeps(COMPONENT_DEPENDENCIES[c],
                                                         installedComponents \cup {c},
                                                         Rest(installQueue))
                /\ failedComponents' = failedComponents
           ELSE /\ installQueue' = Rest(installQueue)
                /\ required' = required
                /\ failedComponents' = failedComponents \cup {c}
    /\ UNCHANGED <<inputs, pc>>

\* Lines 394-430: copied, imports rewritten, dependencies enqueued.
InstallSucceeds ==
    /\ Dequeuing
    /\ LET c == Head(installQueue) IN
        /\ Copying(c)
        /\ installedComponents' = installedComponents \cup {c}
        /\ installQueue' = EnqueueDeps(Dependencies(c), installedComponents \cup {c},
                                       Rest(installQueue))
        /\ required' = required \o RequiredDeps(Dependencies(c), installedComponents \cup {c},
                                                 Rest(installQueue))
    /\ UNCHANGED <<inputs, failedComponents, pc>>

\* The exception leaves add(): nothing is recorded and the loop is over.
InstallThrowsAborting ==
    /\ Dequeuing
    /\ LET c == Head(installQueue) IN
        /\ Copying(c)
        /\ installQueue' = Rest(installQueue)
        /\ pc' = "done"
    /\ UNCHANGED <<inputs, installedComponents, failedComponents, required>>

\* The catch without its failedComponents.add(component).
InstallThrowsUnrecorded ==
    /\ Dequeuing
    /\ LET c == Head(installQueue) IN
        /\ Copying(c)
        /\ installQueue' = Rest(installQueue)
    /\ UNCHANGED <<inputs, installedComponents, failedComponents, pc, required>>

\* installedComponents.add(component) moved above the rewrite of the
\* imports: a failed write leaves the name in both sets.
InstallThrowsAfterAdd ==
    /\ Dequeuing
    /\ LET c == Head(installQueue) IN
        /\ Copying(c)
        /\ installedComponents' = installedComponents \cup {c}
        /\ failedComponents' = failedComponents \cup {c}
        /\ installQueue' = Rest(installQueue)
    /\ UNCHANGED <<inputs, pc, required>>

\* Lines 394-418 and 432-436: fs.copy, readdir, readFile or writeFile throws;
\* the catch records the failure and the loop goes on.
InstallThrows ==
    /\ Dequeuing
    /\ LET c == Head(installQueue) IN
        /\ Copying(c)
        /\ failedComponents' = failedComponents \cup {c}
        /\ installQueue' = Rest(installQueue)
    /\ UNCHANGED <<inputs, installedComponents, pc, required>>

\* Line 362 false: the queue is empty, the loop is left for the summary.
Finish ==
    /\ pc = "loop"
    /\ installQueue = << >>
    /\ pc' = "done"
    /\ UNCHANGED <<inputs, installQueue, installedComponents, failedComponents,
                   sourceDir, destDir, attempts, copies, attemptOrder, required>>

Next ==
    \/ SkipProcessed
    \/ SourceNotFound
    \/ AlreadyExists
    \/ InstallSucceeds
    \/ InstallThrows
    \/ Finish

Spec == Init /\ [][Next]_vars

\* Every awaited call returns or throws, and nothing else runs: an
\* iteration that can be taken is taken.
FairSpec == Spec /\ WF_vars(Next)

------------------------------------------------------------------------------
\* Vocabulary of the properties

Requested == Range(components)

DependsOn(c, d) == Contains(Dependencies(c), d)

\* Installed after a copy of its own, not by the existing-destination skip.
CopiedOk == {c \in installedComponents : copies[c] >= 1}

\* Installed by the existing-destination skip.
SkippedExisting == {c \in installedComponents : copies[c] = 0}

\* The names reached from S along dependency edges that leave a name of `through`.
RECURSIVE ReachVia(_, _)
ReachVia(S, through) ==
    LET T == S \cup {d \in Components : \E c \in S \cap through : DependsOn(c, d)}
    IN  IF T = S THEN S ELSE ReachVia(T, through)

\* The reachable closure of S under the dependency map.
Closure(S) == ReachVia(S, Components)

Acyclic == \A c \in Components : c \notin Closure(Range(Dependencies(c)))

Occurrences(s, x) == Cardinality({i \in 1..Len(s) : s[i] = x})

\* The dependencies of ds, in order and once each, that are not in `seen`.
RECURSIVE FreshDeps(_, _)
FreshDeps(ds, seen) ==
    IF ds = << >> THEN << >>
    ELSE IF Head(ds) \in seen THEN FreshDeps(Tail(ds), seen)
         ELSE <<Head(ds)>> \o FreshDeps(Tail(ds), seen \cup {Head(ds)})

------------------------------------------------------------------------------
\* C1: in every state of the loop no name is in both installedComponents and
\* failedComponents, and no name was attempted (source looked up, copied)
\* more than once, however often it is requested or depended upon.
C1_AtMostOnce ==
    /\ installedComponents \cap failedComponents = {}
    /\ \A c \in Components : attempts[c] <= 1 /\ copies[c] <= 1

\* A finished run in which a name requested twice failed, and was looked up once.
C1_Witness ==
    /\ pc = "done"
    /\ \E c \in failedComponents : Occurrences(components, c) = 2 /\ attempts[c] = 1

\* C2 as stated: for an acyclic map, once the queue has drained,
\* installed \cup failed is the reachable closure of the requested names.
C2_ClosureOriginal ==
    (pc = "done" /\ Acyclic) =>
        installedComponents \cup failedComponents = Closure(Requested)

\* C2, amended: once the queue has drained, installed \cup failed is the set
\* reached from the requested names along the dependency edges that leave a
\* copied component; the edges of a failed or skipped one are not followed.
\* It lies within the reachable closure.
C2_ClosureThroughCopied ==
    pc = "done" =>
        /\ installQueue = << >>
        /\ installedComponents \cup failedComponents = ReachVia(Requested, CopiedOk)
        /\ installedComponents \cup failedComponents \subseteq Closure(Requested)

\* A finished run: a copied component's dependency, not requested, was
\* attempted and failed, and its own dependency was never attempted.
C2_Witness ==
    /\ pc = "done"
    /\ \E a \in CopiedOk, b \in failedComponents, c \in Components :
        /\ DependsOn(a, b) /\ DependsOn(b, c)
        /\ b \notin Requested
        /\ attempts[c] = 0

\* C3: whatever the map, with a cycle or a self-dependency too, the loop
\* reaches the empty queue and leaves, and no component is attempted twice.
C3_Terminates ==
    /\ <>(pc = "done" /\ installQueue = << >>)
    /\ [](\A c \in Components : attempts[c] <= 1)

\* A finished run over a cycle of two components, both copied once.
C3_Witness ==
    /\ pc = "done"
    /\ \E a, b \in CopiedOk :
        a # b /\ DependsOn(a, b) /\ DependsOn(b, a) /\ attempts[a] = 1 /\ attempts[b] = 1

\* C4: a component whose source and destination were both found is, without
\* --force, installed, never failed and never copied; with --force it is
\* copied (once) and not skipped.
C4_ExistingDestination ==
    \A c \in Components :
        (sourceDir[c] = "present" /\ destDir[c] = "present") =>
            IF force
            THEN copies[c] = 1 /\ c \in installedComponents \cup failedComponents
            ELSE copies[c] = 0 /\ c \in installedComponents /\ c \notin failedComponents

\* A component skipped because its destination exists, after the loop has gone on.
C4_Witness ==
    /\ ~force
    /\ pc = "done"
    /\ \E c \in installedComponents :
        sourceDir[c] = "present" /\ destDir[c] = "present" /\ copies[c] = 0

\* C5 as stated: when X has failed, every Y that declares X and is requested, or
\* is a dependency of an installed component, has been attempted by the end.
C5_DependentsOriginal ==
    pc = "done" =>
        \A x \in failedComponents, y \in Components :
            (/\ DependsOn(y, x)
             /\ \/ y \in Requested
                \/ \E z \in installedComponents : DependsOn(z, y))
            => (attempts[y] = 1 /\ y \in installedComponents \cup failedComponents)

\* C5, amended: when X has failed, every Y that declares X and is requested, or
\* is a dependency of a component that was copied, has been attempted by the
\* end; a dependency of a component skipped for its existing destination
\* need not be.
C5_DependentsOfCopied ==
    pc = "done" =>
        \A x \in failedComponents, y \in Components :
            (/\ DependsOn(y, x)
             /\ \/ y \in Requested
                \/ \E z \in CopiedOk : DependsOn(z, y))
            => (attempts[y] = 1 /\ y \in installedComponents \cup failedComponents)

\* X failed first; Y, which declares X, was not requested and was attempted
\* as the dependency of a copied Z.
C5_Witness ==
    /\ pc = "done"
    /\ Len(components) = 2
    /\ \E y \in Components, z \in CopiedOk :
        /\ components[1] \in failedComponents
        /\ DependsOn(y, components[1])
        /\ y \notin Requested
        /\ DependsOn(z, y)
        /\ attempts[y] = 1

\* C6: a failure does not end the loop: the loop is left only with the queue
\* empty, and then every requested name is installed or failed.
C6_FailureDoesNotAbort ==
    pc = "done" =>
        /\ installQueue = << >>
        /\ Requested \subseteq installedComponents \cup failedComponents

\* The first requested component threw in the copy, the second was copied after it.
C6_Witness ==
    /\ pc = "done"
    /\ Len(components) = 2
    /\ components[1] \in failedComponents /\ copies[components[1]] = 1
    /\ components[2] \in CopiedOk

\* Every attempt so far ended in a successful copy.
EveryInstallSucceeded == \A c \in Components : attempts[c] >= 1 => c \in CopiedOk

\* C7: when every attempt is a copy that succeeds, the run ends with
\* installed = the reachable closure of the request and failed = {}, every
\* installed component copied exactly once.
C7_AllSucceed ==
    (pc = "done" /\ EveryInstallSucceeded) =>
        /\ installedComponents = Closure(Requested)
        /\ failedComponents = {}
        /\ \A c \in installedComponents : copies[c] = 1 /\ attempts[c] = 1

\* add(["Accordion", "Collapsible"]) with the shipped map: both installed, each copied once.
C7_Witness ==
    /\ pc = "done"
    /\ components = <<"Accordion", "Collapsible">>
    /\ COMPONENT_DEPENDENCIES = ShippedMap
    /\ installedComponents = {"Accordion", "Collapsible"}
    /\ failedComponents = {}
    /\ copies["Accordion"] = 1 /\ copies["Collapsible"] = 1

\* C8: the step that installs a component whose name is no key of the map
\* adds it to installedComponents, appends nothing to the queue and does not
\* add it to failedComponents.
C8_MissingKey ==
    [][\A c \in Components :
        (/\ c \notin DOMAIN COMPONENT_DEPENDENCIES
         /\ c \notin installedComponents
         /\ c \in installedComponents')
        => (/\ installedComponents' = installedComponents \cup {c}
            /\ installQueue' = Tail(installQueue)
            /\ failedComponents' = failedComponents)]_vars

\* A copied component that is no key of the map, in a map that has keys,
\* with the queue still holding a name after it.
C8_Witness ==
    /\ DOMAIN COMPONENT_DEPENDENCIES # {}
    /\ installQueue # << >>
    /\ \E c \in CopiedOk : c \notin DOMAIN COMPONENT_DEPENDENCIES

\* C9 as stated: every step that adds a component to installedComponents, the
\* existing-destination skip too, appends to the queue each of its
\* dependencies that is not installed and not in the queue.
C9_EnqueueOriginal ==
    [][\A c \in Components :
        (c \notin installedComponents /\ c \in installedComponents')
        => installQueue' = Tail(installQueue) \o
               FreshDeps(Dependencies(c),
                         installedComponents' \cup Range(Tail(installQueue)))]_vars

\* C9, amended: every step that adds a component to installedComponents after
\* copying it appends to the queue, in order, each of its dependencies that is
\* not installed and not in the queue; the existing-destination skip adds the
\* component to installedComponents and appends nothing.
C9_EnqueueAfterCopy ==
    [][\A c \in Components :
        (c \notin installedComponents /\ c \in installedComponents')
        => IF copies'[c] = copies[c] + 1
           THEN installQueue' = Tail(installQueue) \o
                    FreshDeps(Dependencies(c),
                              installedComponents' \cup Range(Tail(installQueue)))
           ELSE installQueue' = Tail(installQueue)]_vars

\* One component was skipped and its dependency never attempted; another was
\* copied and its dependency, not requested, was attempted.
C9_Witness ==
    /\ pc = "done"
    /\ \E a \in SkippedExisting, b \in CopiedOk, d, e \in Components :
        /\ DependsOn(a, d) /\ attempts[d] = 0
        /\ DependsOn(b, e) /\ e \notin Requested /\ attempts[e] = 1

\* C10: a step that fails the dequeued component adds exactly that component
\* to failedComponents, leaves installedComponents alone and only removes
\* the head of the queue: none of its dependencies is enqueued.
C10_FailureFrame ==
    [][failedComponents' # failedComponents =>
        /\ installQueue # << >>
        /\ Head(installQueue) \notin failedComponents
        /\ failedComponents' = failedComponents \cup {Head(installQueue)}
        /\ installedComponents' = installedComponents
        /\ installQueue' = Tail(installQueue)]_vars

\* A failed component with a dependency that was never attempted, one failed
\* for its missing source and one for a throw in the copy.
C10_Witness ==
    /\ pc = "done"
    /\ \E a, b \in failedComponents, d, e \in Components :
        /\ sourceDir[a] = "missing" /\ copies[b] = 1
        /\ DependsOn(a, d) /\ attempts[d] = 0
        /\ DependsOn(b, e) /\ attempts[e] = 0

------------------------------------------------------------------------------
\* A sequence without its repeats: the first occurrence of each name, in order.
RECURSIVE FirstOccurrences(_, _)
FirstOccurrences(s, seen) ==
    IF s = << >> THEN << >>
    ELSE IF Head(s) \in seen THEN FirstOccurrences(Tail(s), seen)
         ELSE <<Head(s)>> \o FirstOccurrences(Tail(s), seen \cup {Head(s)})

IsPrefix(a, b) == Len(a) <= Len(b) /\ SubSeq(b, 1, Len(a)) = a

\* The requested names in the order given, then the names pushed as
\* dependencies in the order pushed, each name once.
FifoOrder == FirstOccurrences(components \o required, {})

\* C11: components are attempted in FIFO order: the requested names first, in
\* the order given, then the discovered dependencies in the order they were
\* pushed; at every moment the attempts made are the beginning of that order,
\* and at the end they are all of it.
C11_Fifo ==
    /\ IsPrefix(attemptOrder, FifoOrder)
    /\ pc = "done" => attemptOrder = FifoOrder

\* Two requested names and a dependency of the first, not requested: the
\* second requested name was attempted before the dependency.
C11_Witness ==
    /\ pc = "done"
    /\ Len(components) = 2
    /\ Len(attemptOrder) = 3
    /\ attemptOrder[1] = components[1]
    /\ attemptOrder[2] = components[2]
    /\ DependsOn(components[1], attemptOrder[3])

\* C12: both sets start empty and only grow; a name in failedComponents
\* stays there, is not attempted again and does not enter
\* installedComponents, and the same with the two sets exchanged.
C12_Monotone ==
    /\ installedComponents = {} /\ failedComponents = {}
    /\ [][/\ installedComponents \subseteq installedComponents'
          /\ failedComponents \subseteq failedComponents'
          /\ \A c \in failedComponents :
                c \notin installedComponents' /\ attempts'[c] = attempts[c]
          /\ \A c \in installedComponents :
                c \notin failedComponents' /\ attempts'[c] = attempts[c]]_vars

\* A component failed, was then pushed again as the dependency of a copied
\* one, and is still failed and attempted once at the end.
C12_Witness ==
    /\ pc = "done"
    /\ Len(components) = 2
    /\ components[1] \in failedComponents
    /\ components[2] \in CopiedOk
    /\ Contains(required, components[1])
    /\ attempts[components[1]] = 1

\* C13: every name in installedComponents, failedComponents or the queue is
\* requested or a declared dependency of a copied component; so installed
\* \cup failed lies within the reachable closure of the request.
C13_OnlyRelated ==
    /\ \A c \in installedComponents \cup failedComponents \cup Range(installQueue) :
          c \in Requested \/ \E a \in CopiedOk : DependsOn(a, c)
    /\ installedComponents \cup failedComponents \subseteq Closure(Requested)

\* A dependency of a copied component, not requested, waits in the queue,
\* and the third name, which is a key of the map but neither requested nor
\* a dependency of the copied component, is in no set and not in the queue.
C13_Witness ==
    \E a \in CopiedOk, d \in Range(installQueue), e \in DOMAIN COMPONENT_DEPENDENCIES :
        /\ DependsOn(a, d) /\ d \notin Requested
        /\ e \notin Requested /\ ~DependsOn(a, e)
        /\ e \notin installedComponents \cup failedComponents \cup Range(installQueue)

\* C14: enqueueing never makes a duplicate: a name occurs in the queue at most
\* as often as in the request, or once if it is not requested.
C14_NoDuplicate ==
    \A c \in Components :
        Occurrences(installQueue, c) <=
            IF Occurrences(components, c) >= 1 THEN Occurrences(components, c) ELSE 1

\* Two copied components declare the same dependency, not requested; it is in
\* the queue once.
C14_Witness ==
    \E a, b \in CopiedOk, d \in Components :
        /\ a # b /\ DependsOn(a, d) /\ DependsOn(b, d)
        /\ d \notin Requested
        /\ Occurrences(installQueue, d) = 1

\* C15: no enqueued name is lost: the names ever in the queue (requested or
\* pushed as a dependency) are those installed, failed or still queued; when
\* the loop ends the queue is empty and each of them is in exactly one set.
C15_NoneLost ==
    /\ Requested \cup Range(required) =
           installedComponents \cup failedComponents \cup Range(installQueue)
    /\ pc = "done" =>
        /\ installQueue = << >>
        /\ installedComponents \cup failedComponents = Requested \cup Range(required)
        /\ installedComponents \cap failedComponents = {}

\* The loop has ended with a pushed dependency, not requested, failed by a
\* throw of the copy, and the component that required it installed.
C15_Witness ==
    /\ pc = "done"
    /\ \E d \in failedComponents :
        /\ Contains(required, d) /\ d \notin Requested /\ copies[d] = 1
    /\ installedComponents # {}

====
